---- MODULE Spec2Model ----
(***************************************************************************)
(* Model of the notebook 1_geth_to_maprdb.ipynb: authenticate against the  *)
(* MapR-DB REST gateway, build the request headers, create the table,      *)
(* then pull blocks from geth and post their transactions one by one.      *)
(*                                                                         *)
(* The code cells run top to bottom, one after the other.  A cell that     *)
(* lets an exception escape ends the run (pc = "aborted"); the optional    *)
(* display cells (bearerToken, getBlock(5399622), getAllTransactions(...)) *)
(* change no state and are left out.                                       *)
(*                                                                         *)
(* Block heights, hashes, addresses and amounts are small naturals that    *)
(* stand for the ledger's numbers and hex strings.  A header value is the  *)
(* sequence of the string parts it is concatenated from.                   *)
(***************************************************************************)
EXTENDS Integers, Sequences, FiniteSets, TLC

\* ---------------------------------------------------------------- bounds
\* heights 0..MaxHeight exist on the ledger node
MaxHeight == 1
\* the largest number of transactions in one block
MaxTxs == 2
\* how many times the table-creation cell is run in one session
MaxCreateRuns == 2

VARIABLES
    pc,            \* the cell / loop position the run is at
    raisedAt,      \* the step whose exception ended the run ("" while running)
    bearerToken,   \* global bearerToken
    headers,       \* global headers
    response,      \* global response of the table-creation cell
    createRuns,    \* number of executions of the table-creation cell
    tables,        \* the sink: table paths that exist in MapR-DB
    ledger,        \* the data source: height -> block
    blockstart, blockend, txstable,   \* arguments of getTransactionsAndInsertToDB
    blocks,        \* range(blockstart, blockend)
    bpos,          \* position of the outer for loop in blocks
    txsLastBlock,  \* local txsLastBlock
    idx,           \* position of the inner for loop in txsLastBlock
    out,           \* what the cells printed
    log            \* history: every remote call made, in order, with its outcome

vars == <<pc, raisedAt, bearerToken, headers, response, createRuns, tables, ledger,
          blockstart, blockend, txstable, blocks, bpos, txsLastBlock, idx, out, log>>

\* ------------------------------------------------------------ data source
\* the i-th transaction of block h, as web3 returns it
Tx(h, i) == [hash |-> h * (MaxTxs + 1) + i, from |-> i % 2, value |-> h + i]

\* block h holding n transactions
Block(h, n) == [number |-> h, transactions |-> [i \in 1 .. n |-> Tx(h, i)]]

\* the ledgers the node may serve: every block size 0..MaxTxs occurs
Ledgers ==
    { [h \in 0 .. MaxHeight |-> Block(h, (h + k) % (MaxTxs + 1))] : k \in 0 .. MaxTxs }

\* heights the driver may be asked for (MaxHeight + 1 is not on the ledger yet)
Heights == 0 .. (MaxHeight + 1)

\* ------------------------------------------------------------ python values
None == [none |-> TRUE]

Tokens == {"jwtA", "jwtB"}

TableNames == {"all_transactions_table", "smoketest"}

\* dict(x): a new mapping with the keys and values of x
dict(x) == [k \in DOMAIN x |-> x[k]]

\* variant: the end height included
range_inclusive(a, b) == IF b >= a THEN [k \in 1 .. (b - a + 1) |-> a + k - 1] ELSE << >>

\* range(a, b): a, a+1, ..., b-1
range(a, b) == IF b > a THEN [k \in 1 .. (b - a) |-> a + k - 1] ELSE << >>

\* json.dumps of a flat dict: the members of the JSON object
json_dumps(d) == { <<k, d[k]>> : k \in DOMAIN d }

\* the value of member k in a JSON object
JsonGet(doc, k) == (CHOOSE m \in doc : m[1] = k)[2]

JsonKeys(doc) == { m[1] : m \in doc }

\* --------------------------------------------------------------- literals
mapr_rest_auth == "https://172.16.9.42:8243/auth/v2/token"

transaction_put_url ==
    <<"https://172.16.9.42:8243/api/v2/table/%2Fuser%2Ftestuser%2Feth%2F",
      "all_transactions_table">>

\* variant: the collection of the table-creation cell, whatever txstable is
rest_put_txs_url_fixed(t) ==
    <<"https://172.16.9.238:8243/api/v2/table/%2Fuser%2Ftestuser%2Feth%2F",
      "all_transactions_table">>

rest_put_txs_url(t) ==
    <<"https://172.16.9.238:8243/api/v2/table/%2Fuser%2Ftestuser%2Feth%2F", t>>

\* headers of the authentication cell
InitialHeaders == [h \in {"content-type"} |-> <<"application/json">>]

\* variant: the token without the keyword Bearer
BearerHeadersBare(tok) ==
    ("content-type" :> <<"application/json">>) @@
    ("Authorization" :> <<tok["token"]>>)

\* headers of the header-construction cell
BearerHeaders(tok) ==
    ("content-type" :> <<"application/json">>) @@
    ("Authorization" :> <<"Bearer ", tok["token"]>>)

\* ------------------------------------------------------------ history
NoHeaders == [rpc |-> <<"web3">>]

Event(op, url, hdrs, data, height, pos, result) ==
    [op |-> op, url |-> url, headers |-> hdrs, data |-> data,
     height |-> height, pos |-> pos, result |-> result]

Printed(cell, text) == [cell |-> cell, text |-> text]

Init ==
    /\ pc = "auth"
    /\ raisedAt = ""
    /\ bearerToken = None
    /\ headers = InitialHeaders
    /\ response = None
    /\ createRuns = 0
    /\ tables = {}
    /\ ledger \in Ledgers
    /\ blockstart = 0
    /\ blockend = 0
    /\ txstable = "all_transactions_table"
    /\ blocks = << >>
    /\ bpos = 0
    /\ txsLastBlock = << >>
    /\ idx = 0
    /\ out = << >>
    /\ log = << >>


\* ------------------------------------------------------------ remote ends
\* what a failed HTTP call raises: requests' ConnectionError, or anything else
\* (a body that is not JSON, a broken transfer, ...)
Exceptions == {"ConnectionError", "OtherError"}

Reply(exc, status, json) == [exc |-> exc, status |-> status, json |-> json]

\* replies of the authentication endpoint: a token, a JSON object without one
\* (the credentials were refused), or an exception
AuthReplies ==
    { Reply("", "200", [token |-> t]) : t \in Tokens }
        \cup { Reply("", "401", [error |-> "denied"]) }
        \cup { Reply(e, "", None) : e \in Exceptions }

\* does the gateway accept these headers' credentials
Authorised(hdrs) ==
    /\ "Authorization" \in DOMAIN hdrs
    /\ \E t \in Tokens : hdrs["Authorization"] = <<"Bearer ", t>>

\* status of PUT table: 201 created, 409 already exists, 401 token expired or invalid
PutTableStatuses(tbls, path, hdrs) ==
    IF Authorised(hdrs)
    THEN {"401", IF path \in tbls THEN "409" ELSE "201"}
    ELSE {"401"}

PutReplies(tbls, path, hdrs) ==
    { Reply("", s, None) : s \in PutTableStatuses(tbls, path, hdrs) }
        \cup { Reply(e, "", None) : e \in Exceptions }

\* status of POST document: success, or 401 for an expired or invalid token
InsertStatuses(hdrs) == IF Authorised(hdrs) THEN {"ok", "401"} ELSE {"401"}

InsertReplies(hdrs) ==
    { Reply("", s, None) : s \in InsertStatuses(hdrs) }
        \cup { Reply(e, "", None) : e \in Exceptions }

\* outcome of web3.eth.getBlock(h, full_transactions=True) followed by dict(...):
\* a height the node does not have yields None, and dict(None) raises
FetchOutcomes(ldg, h) == IF h \in DOMAIN ldg THEN {"ok", "error"} ELSE {"error"}

ResultOf(r) == IF r.exc = "" THEN r.status ELSE r.exc

\* ------------------------------------------------------------ the code
\* variant: an except clause for another exception class
CaughtByAuthTimeoutOnly(exc) == exc = "Timeout"

\* except requests.exceptions.ConnectionError (authentication cell)
CaughtByAuth(exc) == exc = "ConnectionError"

\* except requests.exceptions.ConnectionError (table-creation cell)
CaughtByCreate(exc) == exc = "ConnectionError"

\* variant: the except clause of the other cells
CaughtByInsertConnectionOnly(exc) == exc = "ConnectionError"

\* except Exception (loader)
CaughtByInsert(exc) == exc \in Exceptions

\* variant: a 4xx answer raises, as response.raise_for_status() would
StatusRaisesOnConflict(status) == status \in {"401", "409"}

\* the table-creation cell prints the response and never looks at its status
StatusRaises(status) == FALSE

\* bearerToken['token'] raises TypeError on None and KeyError without the key
TokenLookupRaises(tok) == tok = None \/ "token" \notin DOMAIN tok

\* variant: the key taken from another field
AssignIdFromSender(transaction) ==
    [k \in DOMAIN transaction \cup {"_id"} |->
        IF k = "_id" THEN transaction["from"] ELSE transaction[k]]

\* transaction['_id'] = transaction['hash']
AssignId(transaction) ==
    [k \in DOMAIN transaction \cup {"_id"} |->
        IF k = "_id" THEN transaction["hash"] ELSE transaction[k]]

RECURSIVE AppendAllReversed(_, _)
\* variant: each record put in front of the list
AppendAllReversed(allTransactions, txs) ==
    IF Len(txs) = 0
    THEN allTransactions
    ELSE AppendAllReversed(<<dict(Head(txs))>> \o allTransactions, Tail(txs))

RECURSIVE AppendAll(_, _)
\* the for loop of getAllTransactions: append dict(transaction) for each one
AppendAll(allTransactions, txs) ==
    IF Len(txs) = 0
    THEN allTransactions
    ELSE AppendAll(Append(allTransactions, dict(Head(txs))), Tail(txs))

\* getAllTransactions, given the block that web3.eth.getBlock returned
getAllTransactions(fetched) == AppendAll(<< >>, dict(fetched)["transactions"])

\* the run ends with an exception escaping from step `where`
Abort(where) ==
    /\ pc' = "aborted"
    /\ raisedAt' = where

\* the outer for loop moves to position k of blocks, or ends
GotoBlock(k) ==
    /\ pc' = IF k <= Len(blocks) THEN "fetch" ELSE "done"
    /\ bpos' = IF k <= Len(blocks) THEN k ELSE bpos
    /\ raisedAt' = raisedAt

\* authentication cell
Authenticate ==
    /\ pc = "auth"
    /\ headers' = InitialHeaders
    /\ \E r \in AuthReplies :
        /\ log' = Append(log, Event("auth", mapr_rest_auth, InitialHeaders, {}, -1, 0, ResultOf(r)))
        /\ IF r.exc = ""
           THEN bearerToken' = r.json /\ pc' = "hdr" /\ raisedAt' = raisedAt
           ELSE /\ bearerToken' = None
                /\ IF CaughtByAuth(r.exc)
                   THEN pc' = "hdr" /\ raisedAt' = raisedAt
                   ELSE Abort("auth")
    /\ UNCHANGED <<response, createRuns, tables, ledger, blockstart, blockend, txstable,
                   blocks, bpos, txsLastBlock, idx, out>>

\* header-construction cell
ConstructHeaders ==
    /\ pc = "hdr"
    /\ IF TokenLookupRaises(bearerToken)
       THEN Abort("hdr") /\ headers' = headers
       ELSE /\ headers' = BearerHeaders(bearerToken)
            /\ pc' = "create"
            /\ raisedAt' = raisedAt
    /\ UNCHANGED <<bearerToken, response, createRuns, tables, ledger, blockstart, blockend,
                   txstable, blocks, bpos, txsLastBlock, idx, out, log>>

\* table-creation cell; it may be run again before the load
CreateTable ==
    /\ pc = "create"
    /\ createRuns < MaxCreateRuns
    /\ createRuns' = createRuns + 1
    /\ \E r \in PutReplies(tables, transaction_put_url, headers) :
        /\ log' = Append(log, Event("put", transaction_put_url, headers, {}, -1, 0, ResultOf(r)))
        /\ tables' = IF r.exc = "" /\ r.status = "201"
                     THEN tables \cup {transaction_put_url} ELSE tables
        /\ IF r.exc = ""
           THEN /\ response' = [status |-> r.status]
                /\ out' = Append(out, Printed("create", r.status))
                /\ IF StatusRaises(r.status)
                   THEN Abort("create")
                   ELSE /\ raisedAt' = raisedAt
                        /\ \/ pc' = "populate"
                           \/ createRuns' < MaxCreateRuns /\ pc' = "create"
           ELSE /\ response' = None
                /\ out' = out
                /\ IF CaughtByCreate(r.exc)
                   THEN /\ raisedAt' = raisedAt
                        /\ \/ pc' = "populate"
                           \/ createRuns' < MaxCreateRuns /\ pc' = "create"
                   ELSE Abort("create")
    /\ UNCHANGED <<bearerToken, headers, ledger, blockstart, blockend, txstable,
                   blocks, bpos, txsLastBlock, idx>>

\* populate cell: fetch the latest block number, then call
\* getTransactionsAndInsertToDB.  The cell's own arguments are
\* (currentblock-100, currentblock, "all_transactions_table"); the function is
\* entered here with any arguments from Heights and TableNames.
Populate ==
    /\ pc = "populate"
    /\ \E o \in {"ok", "error"} :
        /\ log' = Append(log, Event("latest", "geth", NoHeaders, {}, -1, 0, o))
        /\ IF o = "error"
           THEN /\ Abort("latest")
                /\ UNCHANGED <<blockstart, blockend, txstable, blocks, bpos>>
           ELSE \E bs \in Heights, be \in Heights, t \in TableNames :
                /\ blockstart' = bs
                /\ blockend' = be
                /\ txstable' = t
                /\ blocks' = range(bs, be)
                /\ pc' = IF Len(blocks') > 0 THEN "fetch" ELSE "done"
                /\ bpos' = IF Len(blocks') > 0 THEN 1 ELSE 0
                /\ raisedAt' = raisedAt
    /\ UNCHANGED <<bearerToken, headers, response, createRuns, tables, ledger,
                   txsLastBlock, idx, out>>

\* one round of the outer loop up to the inner loop: txsLastBlock = getAllTransactions(block)
Extract ==
    /\ pc = "fetch"
    /\ \E o \in FetchOutcomes(ledger, blocks[bpos]) :
        /\ log' = Append(log, Event("getBlock", "geth", NoHeaders, {}, blocks[bpos], 0, o))
        /\ IF o = "error"
           THEN /\ Abort("fetch")
                /\ UNCHANGED <<txsLastBlock, idx, bpos>>
           ELSE /\ txsLastBlock' = getAllTransactions(ledger[blocks[bpos]])
                /\ idx' = 1
                /\ IF Len(txsLastBlock') > 0
                   THEN pc' = "insert" /\ bpos' = bpos /\ raisedAt' = raisedAt
                   ELSE GotoBlock(bpos + 1)
    /\ UNCHANGED <<bearerToken, headers, response, createRuns, tables, ledger,
                   blockstart, blockend, txstable, blocks, out>>

\* one round of the inner loop, inside the try of the loader
Insert ==
    /\ pc = "insert"
    /\ txsLastBlock' = [txsLastBlock EXCEPT ![idx] = AssignId(@)]
    /\ \E r \in InsertReplies(headers) :
        /\ log' = Append(log, Event("post", rest_put_txs_url(txstable), headers,
                                    json_dumps(txsLastBlock'[idx]), blocks[bpos], idx,
                                    ResultOf(r)))
        /\ IF r.exc = ""
           THEN /\ out' = out
                /\ IF idx < Len(txsLastBlock)
                   THEN idx' = idx + 1 /\ pc' = "insert" /\ bpos' = bpos /\ raisedAt' = raisedAt
                   ELSE idx' = idx /\ GotoBlock(bpos + 1)
           ELSE /\ idx' = idx
                /\ IF CaughtByInsert(r.exc)
                   THEN out' = Append(out, Printed("insert", r.exc)) /\ GotoBlock(bpos + 1)
                   ELSE out' = out /\ Abort("insert") /\ bpos' = bpos
    /\ UNCHANGED <<bearerToken, headers, response, createRuns, tables, ledger,
                   blockstart, blockend, txstable, blocks>>

Next ==
    \/ Authenticate
    \/ ConstructHeaders
    \/ CreateTable
    \/ Populate
    \/ Extract
    \/ Insert

Spec == Init /\ [][Next]_vars

\* ------------------------------------------------------------ history views
Events(op) == { k \in 1 .. Len(log) : log[k].op = op }

Posts == Events("post")

Puts == Events("put")

IsGetBlock(e) == e.op = "getBlock"

\* the getBlock calls of the driver, in the order they were made
Fetches == SelectSeq(log, IsGetBlock)

\* the transactions the ledger holds at height h
LedgerTxs(h) == ledger[h].transactions

\* the position in log of the last getBlock call before position k (0 if none)
FetchBefore(k) ==
    LET F == { j \in 1 .. (k - 1) : log[j].op = "getBlock" }
    IN  IF F = {} THEN 0 ELSE CHOOSE j \in F : \A i \in F : i <= j

RECURSIVE SumTxs(_, _)
\* the number of transactions in the blocks of heights a..b-1
SumTxs(a, b) == IF a >= b THEN 0 ELSE Len(LedgerTxs(a)) + SumTxs(a + 1, b)

Succeeded(e) == e.result \in {"200", "201", "409", "ok"}

AllCallsSucceeded == \A k \in 1 .. Len(log) : Succeeded(log[k])

InsertRaised(k) == log[k].op = "post" /\ log[k].result \in Exceptions

InsertReports == { j \in 1 .. Len(out) : out[j].cell = "insert" }

\* the loader is no longer working on the block of call k
LeftBlockOf(k) ==
    pc \in {"fetch", "done", "aborted"} \/ FetchBefore(Len(log) + 1) > k

\* ------------------------------------------------------------ claims
\* C1: per-record failure isolation: once the loader has left a block, every
\* position after a failed insert of that block has been attempted as well.
C1_FailureIsolation ==
    \A k \in Posts :
        (InsertRaised(k) /\ LeftBlockOf(k)) =>
            \A i \in (log[k].pos + 1) .. Len(LedgerTxs(log[k].height)) :
                \E m \in Posts :
                    m > k /\ log[m].height = log[k].height /\ log[m].pos = i

\* C2: when no remote call fails, a finished load has issued exactly one POST per
\* transaction of the blocks blockstart..blockend-1, so as many POSTs as the
\* blocks hold transactions, every one to the collection named by txstable.
C2_LoadCount ==
    (pc = "done" /\ AllCallsSucceeded) =>
        /\ Cardinality(Posts) = SumTxs(blockstart, blockend)
        /\ \A h \in blockstart .. (blockend - 1) : \A i \in 1 .. Len(LedgerTxs(h)) :
              Cardinality({ k \in Posts : log[k].height = h /\ log[k].pos = i }) = 1
        /\ \A k \in Posts :
              /\ log[k].url[2] = txstable
              /\ log[k].height \in blockstart .. (blockend - 1)
              /\ JsonGet(log[k].data, "hash") = LedgerTxs(log[k].height)[log[k].pos].hash

C2_Witness ==
    /\ pc = "done"
    /\ AllCallsSucceeded
    /\ blockend - blockstart = 2
    /\ Cardinality(Posts) = 2
    /\ txstable = "smoketest"
    /\ \E h \in blockstart .. (blockend - 1) : Len(LedgerTxs(h)) = 0

\* C3: the driver extracts the heights blockstart, blockstart+1, ... in ascending
\* order, each once and none outside [blockstart, blockend); a finished run has
\* extracted all of them; every insert attempt for height h lies between the
\* extraction of h and the next extraction.
C3_RangeOrder ==
    /\ \A j \in 1 .. Len(Fetches) :
          /\ Fetches[j].height = blockstart + j - 1
          /\ Fetches[j].height < blockend
    /\ pc = "done" =>
          Len(Fetches) = (IF blockend > blockstart THEN blockend - blockstart ELSE 0)
    /\ \A k \in Posts :
          /\ FetchBefore(k) > 0
          /\ log[FetchBefore(k)].height = log[k].height
          /\ log[FetchBefore(k)].result = "ok"

C3_Witness ==
    /\ pc = "done"
    /\ Len(Fetches) = 2
    /\ \E k \in Posts : \E m \in Posts :
          InsertRaised(k) /\ m > k /\ log[m].height > log[k].height

\* C4: in every insert request the document's _id equals its hash, the other
\* members are the transaction's fields as extracted, and two requests for
\* different hashes carry different keys.
C4_KeyIsHash ==
    /\ \A k \in Posts :
          LET doc == log[k].data
              tx == LedgerTxs(log[k].height)[log[k].pos]
          IN  /\ JsonKeys(doc) = DOMAIN tx \cup {"_id"}
              /\ JsonGet(doc, "_id") = JsonGet(doc, "hash")
              /\ \A f \in DOMAIN tx : JsonGet(doc, f) = tx[f]
    /\ \A k \in Posts : \A m \in Posts :
          JsonGet(log[k].data, "hash") # JsonGet(log[m].data, "hash") =>
              JsonGet(log[k].data, "_id") # JsonGet(log[m].data, "_id")

C4_Witness ==
    \E k \in Posts : \E m \in Posts :
        /\ JsonGet(log[k].data, "hash") # JsonGet(log[m].data, "hash")
        /\ JsonGet(log[k].data, "from") = JsonGet(log[m].data, "from")

\* C5: once a token was obtained, one authentication request was made, and every
\* PUT and POST carried "Authorization: Bearer <that token>" with
\* "content-type: application/json"; after header construction the global
\* headers hold exactly these two entries and never change.
C5_SingleToken ==
    "token" \in DOMAIN bearerToken =>
        /\ Cardinality(Events("auth")) = 1
        /\ \A k \in Puts \cup Posts :
              /\ DOMAIN log[k].headers = {"content-type", "Authorization"}
              /\ log[k].headers["content-type"] = <<"application/json">>
              /\ log[k].headers["Authorization"] = <<"Bearer ", bearerToken.token>>
        /\ pc \notin {"auth", "hdr"} =>
              /\ DOMAIN headers = {"content-type", "Authorization"}
              /\ headers["content-type"] = <<"application/json">>
              /\ headers["Authorization"] = <<"Bearer ", bearerToken.token>>

C5_Witness ==
    /\ "token" \in DOMAIN bearerToken
    /\ Cardinality(Puts) = 2
    /\ Cardinality(Posts) >= 2

\* C6: table creation is idempotent: a 201 or 409 answer raises nothing and
\* leaves the run at the table-creation or populate cell; 409 is answered only
\* after an earlier 201, 201 at most once, and the sink holds the one table.
C6_IdempotentCreate ==
    /\ Cardinality(tables) <= 1
    /\ \A k \in Puts :
          /\ log[k].result = "409" => \E j \in Puts : j < k /\ log[j].result = "201"
          /\ log[k].result = "201" => \A j \in Puts : j < k => log[j].result # "201"
          /\ (log[k].result \in {"201", "409"} /\ k = Len(log)) =>
                /\ pc \in {"create", "populate"}
                /\ raisedAt = ""
                /\ response = [status |-> log[k].result]
                /\ tables = {transaction_put_url}

C6_Witness ==
    /\ pc = "populate"
    /\ \E j \in Puts : \E k \in Puts :
          j < k /\ k = Len(log) /\ log[j].result = "201" /\ log[k].result = "409"

\* C7: right after a block of N transactions was fetched, txsLastBlock holds
\* exactly N records, record i having exactly the fields and values of the
\* block's i-th transaction.
C7_ExtractionComplete ==
    (Len(log) > 0 /\ log[Len(log)].op = "getBlock" /\ log[Len(log)].result = "ok") =>
        LET txs == LedgerTxs(log[Len(log)].height)
        IN  /\ Len(txsLastBlock) = Len(txs)
            /\ \A i \in 1 .. Len(txs) :
                  /\ DOMAIN txsLastBlock[i] = DOMAIN txs[i]
                  /\ \A f \in DOMAIN txs[i] : txsLastBlock[i][f] = txs[i][f]

C7_Witness ==
    /\ Len(log) > 0
    /\ log[Len(log)].op = "getBlock"
    /\ log[Len(log)].result = "ok"
    /\ Len(txsLastBlock) = MaxTxs

\* C8: every insert attempt that did not succeed (the POST raised, or the
\* gateway answered with a non-success status) is reported exactly once, and
\* nothing is reported for an insert that succeeded.
C8_FailuresReported ==
    Cardinality(InsertReports) = Cardinality({ k \in Posts : ~Succeeded(log[k]) })

\* the authentication request failed with a connection error
AuthConnectionError ==
    \E k \in Events("auth") : log[k].result = "ConnectionError"

\* C9 as stated: after a connection error of the authentication request the run
\* goes on through header construction, table creation and the load.
C9_SilentProceed == AuthConnectionError => pc # "aborted"

\* C9 amended: after a connection error of the authentication request the
\* authentication cell raises nothing and leaves bearerToken None; header
\* construction then raises, headers keep the content-type entry alone, and no
\* table-creation or insert request is sent.
C9_AuthFailureStopsAtHeaders ==
    AuthConnectionError =>
        /\ bearerToken = None
        /\ headers = InitialHeaders
        /\ pc \in {"hdr", "aborted"}
        /\ raisedAt = (IF pc = "aborted" THEN "hdr" ELSE "")
        /\ Puts \cup Posts = {}

C9_Witness == AuthConnectionError /\ pc = "aborted" /\ raisedAt = "hdr"

\* C10 as stated (its last part): a failed block fetch does not end the run.
C10_FetchFailureSuppressed ==
    \A k \in Events("getBlock") : log[k].result = "error" => pc # "aborted"

\* C10 amended: a ConnectionError of the authentication POST or of the
\* table-creation PUT, and any exception of an insert POST, is caught where the
\* call is made; any other exception of the POST/PUT cells and any failed fetch
\* (latest block or block h) escapes and ends the run, so that nothing is
\* fetched or inserted after a failed fetch.
C10_WhatIsCaught ==
    /\ raisedAt # "insert"
    /\ \A k \in 1 .. Len(log) :
          /\ (log[k].op = "auth" /\ log[k].result = "ConnectionError") => raisedAt # "auth"
          /\ (log[k].op = "put" /\ log[k].result = "ConnectionError" /\ k = Len(log))
                => pc \in {"create", "populate"}
          /\ (InsertRaised(k) /\ k = Len(log)) => pc \in {"fetch", "done"}
          /\ (log[k].op \in {"auth", "put"} /\ log[k].result = "OtherError")
                => (k = Len(log) /\ pc = "aborted" /\ raisedAt \in {"auth", "create"})
          /\ (log[k].op \in {"latest", "getBlock"} /\ log[k].result = "error")
                => (k = Len(log) /\ pc = "aborted" /\ raisedAt \in {"latest", "fetch"})

C10_Witness ==
    /\ pc = "aborted"
    /\ raisedAt = "fetch"
    /\ log[Len(log)].height + 1 < blockend
    /\ \E k \in Puts : log[k].result = "ConnectionError"

====
